---- MODULE Spec2Model ----
(***************************************************************************)
(* A model of sra2cmap.py: normalize (field-name canonicalisation),        *)
(* format_record (time / lat / lon / depth derivation) and the per-file    *)
(* row loop of main.                                                       *)
(*                                                                         *)
(* A text is a sequence of one-character strings.  A record is a function  *)
(* from field names (texts) to values.  A value is a tagged record:        *)
(* Str(text) for a Python str, Flt(sign, n, frac) for a Python float.      *)
(***************************************************************************)
EXTENDS Integers, Sequences, FiniteSets, TLC

VARIABLES
    pc,            \* where main is: "loop", "rows", "done", "crashed"
    sra,           \* args.sra: per path, whether os.path.isfile holds
    i,             \* number of paths of args.sra the for loop has taken
    header,        \* reader.fieldnames of the open file
    norm2fld,      \* norm2fld of the open file
    ordered_flds,  \* ordered_flds of the open file
    data_ws,       \* the "data" worksheet of wb: a sequence of rows
    num_taken,     \* num_taken
    rows,          \* the data rows of the open file, as the reader gives them
    nread,         \* how many of them the row loop has read
    skipped,       \* the records printed after 'Skipping' for the open file
    stderr,        \* indices of the paths warn() named
    saved,         \* indices of the paths whose workbook wb.save wrote
    exported,      \* <<n>> for the last 'Exported n' printed, <<>> before
    arg,           \* the argument of the last call of the function called
    ret,           \* what that call returned
    fpc            \* the direct call's position: "call", "again", "returned"

vars == <<pc, sra, i, header, norm2fld, ordered_flds, data_ws, rows, nread,
          num_taken, skipped, stderr, saved, exported, arg, ret, fpc>>

mainVars == <<pc, sra, i, header, norm2fld, ordered_flds, data_ws, rows, nread,
              num_taken, skipped, stderr, saved, exported>>

----------------------------------------------------------------------------
(* Characters and texts                                                    *)

Lowers == <<"a","b","c","d","e","f","g","h","i","j","k","l","m",
            "n","o","p","q","r","s","t","u","v","w","x","y","z">>

Uppers == <<"A","B","C","D","E","F","G","H","I","J","K","L","M",
            "N","O","P","Q","R","S","T","U","V","W","X","Y","Z">>

Digits == {"0","1","2","3","4","5","6","7","8","9"}

IsUpper(c) == \E k \in DOMAIN Uppers : Uppers[k] = c

IsLower(c) == \E k \in DOMAIN Lowers : Lowers[k] = c

IsDigit(c) == c \in Digits

\* the regex class \s, as far as the texts of the model go
IsSpace(c) == c = " "

\* str.lower() on one character
LowerChar(c) ==
    IF IsUpper(c) THEN Lowers[CHOOSE k \in DOMAIN Uppers : Uppers[k] = c] ELSE c

\* str.lower()
Lower(s) == [k \in 1..Len(s) |-> LowerChar(s[k])]

Max(S) == CHOOSE x \in S : \A y \in S : y <= x

Min(S) == CHOOSE x \in S : \A y \in S : x <= y

\* all texts over the characters C of length n
RECURSIVE TextsOfLen(_, _)
TextsOfLen(C, n) ==
    IF n = 0 THEN {<<>>}
    ELSE {Append(t, c) : t \in TextsOfLen(C, n - 1), c \in C}

\* all texts over the characters C of length at most n
TextsUpTo(C, n) == UNION {TextsOfLen(C, k) : k \in 0..n}

----------------------------------------------------------------------------
(* normalize                                                               *)

\* the position after the longest run of uppercase letters starting at p
RECURSIVE UpperRunEnd(_, _)
UpperRunEnd(s, p) ==
    IF p <= Len(s) /\ IsUpper(s[p]) THEN UpperRunEnd(s, p + 1) ELSE p

\* caps_under_re.sub(lambda x: x.group(1).lower(), s), scanning from p:
\* ([A-Z]+)(?=[_]) matches at p up to e when s[p..e-1] are uppercase and
\* s[e] is an underscore; the longest such run is taken.
RECURSIVE CapsUnderFrom(_, _)
CapsUnderFrom(s, p) ==
    IF p > Len(s) THEN <<>>
    ELSE LET ends == {e \in (p + 1)..UpperRunEnd(s, p) :
                          e <= Len(s) /\ s[e] = "_"}
         IN  IF ends # {}
             THEN Lower(SubSeq(s, p, Max(ends) - 1)) \o CapsUnderFrom(s, Max(ends))
             ELSE <<s[p]>> \o CapsUnderFrom(s, p + 1)

CapsUnder(s) == CapsUnderFrom(s, 1)

\* s.split('_'): cur is the segment being read
RECURSIVE SplitFrom(_, _, _)
SplitFrom(s, p, cur) ==
    IF p > Len(s) THEN <<cur>>
    ELSE IF s[p] = "_" THEN <<cur>> \o SplitFrom(s, p + 1, <<>>)
    ELSE SplitFrom(s, p + 1, Append(cur, s[p]))

Split(s) == SplitFrom(s, 1, <<>>)

\* '_'.join(parts)
RECURSIVE Join(_)
Join(parts) ==
    IF Len(parts) = 0 THEN <<>>
    ELSE IF Len(parts) = 1 THEN parts[1]
    ELSE parts[1] \o <<"_">> \o Join(Tail(parts))

\* '_'.join(map(str.lower, s.split('_')))
LowerSegments(s) ==
    LET parts == Split(s)
    IN  Join([k \in 1..Len(parts) |-> Lower(parts[k])])

\* camel_to_space matches the one character at p:
\* (?<=[a-z0-9])[A-Z]  or  (?!^)[A-Z](?=[a-z])
CamelMatch(s, p) ==
    /\ IsUpper(s[p])
    /\ \/ p > 1 /\ (IsLower(s[p - 1]) \/ IsDigit(s[p - 1]))
       \/ p # 1 /\ p + 1 <= Len(s) /\ IsLower(s[p + 1])

\* camel_to_space.sub(r'_\1', s), scanning from p
RECURSIVE CamelSubFrom(_, _)
CamelSubFrom(s, p) ==
    IF p > Len(s) THEN <<>>
    ELSE IF CamelMatch(s, p) THEN <<"_", s[p]>> \o CamelSubFrom(s, p + 1)
    ELSE <<s[p]>> \o CamelSubFrom(s, p + 1)

\* a camel rule that forgets .lower()
CamelToSnakeKeepCase(s) == CamelSubFrom(s, 1)

\* camel_to_space.sub(r'_\1', s).lower()
CamelToSnake(s) == Lower(CamelSubFrom(s, 1))

normalize(s) ==
    LET s1 == CapsUnder(s)
    IN  IF \E k \in 1..Len(s1) : s1[k] = "_"
        THEN LowerSegments(s1)
        ELSE CamelToSnake(s1)

----------------------------------------------------------------------------
(* Field names and the texts the inputs are drawn from                     *)

F_time == <<"t", "i", "m", "e">>

F_lat == <<"l", "a", "t">>

F_lon == <<"l", "o", "n">>

F_depth == <<"d", "e", "p", "t", "h">>

F_collection_date == <<"c", "o", "l", "l", "e", "c", "t", "i", "o", "n", "_", "d", "a", "t", "e">>

F_lat_lon == <<"l", "a", "t", "_", "l", "o", "n">>

F_sample_depth == <<"s", "a", "m", "p", "l", "e", "_", "d", "e", "p", "t", "h">>

F_notes == <<"n", "o", "t", "e", "s">>

F_foo == <<"f", "o", "o">>

F_Bar_Baz == <<"B", "a", "r", "_", "B", "a", "z">>

F_bar_baz == <<"b", "a", "r", "_", "b", "a", "z">>

F_Time == <<"T", "i", "m", "e">>

F_LAT == <<"L", "A", "T">>

F_BioSample == <<"B", "i", "o", "S", "a", "m", "p", "l", "e">>

T_DateA == <<"2", "0", "1", "9", "-", "0", "1", "-", "0", "5">>

T_IsoA == <<"2", "0", "1", "9", "-", "0", "1", "-", "0", "5", "T", "0", "0", ":", "0", "0", ":", "0", "0">>

T_DateB == <<"2", "0", "1", "8", "-", "1", "2", "-", "3", "1">>

T_IsoB == <<"2", "0", "1", "8", "-", "1", "2", "-", "3", "1", "T", "0", "0", ":", "0", "0", ":", "0", "0">>

T_BadDate == <<"n", "/", "a">>

T_CoordSW == <<"3", "7", ".", "8", "3", "0", "5", " ", "S", ",", " ", "4", "1", ".", "1", "2", "4", "8", " ", "W">>

T_CoordNE == <<"1", "0", ".", "5", " ", "N", " ", "2", "0", ".", "2", "5", " ", "E">>

T_CoordDMS == <<"3", "7", "deg", "4", "9", "'", "5", "0", "\"", "S">>

T_CoordPlain == <<"3", "7", ".", "8", "3", "0", "5", " ", "S", " ", "4", "1", ".", "1", "2", "4", "8", " ", "W">>

T_9m == <<"9", "m">>

T_9 == <<"9">>

T_12_5_meters == <<"1", "2", ".", "5", " ", "m", "e", "t", "e", "r", "s">>

T_no_data == <<"n", "o", " ", "d", "a", "t", "a">>

T_hello == <<"h", "e", "l", "l", "o">>

T_noon == <<"n", "o", "o", "n">>

T_1_5 == <<"1", ".", "5">>

T_2_5 == <<"2", ".", "5">>

\* req_flds
req_flds == <<F_time, F_lat, F_lon, F_depth>>

----------------------------------------------------------------------------
(* Values and records                                                      *)

Str(text) == [t |-> "str", v |-> text]

\* a float: sign * (v + 0.frac)
Flt(sign, n, frac) == [t |-> "float", v |-> n, sign |-> sign, frac |-> frac]

None == [t |-> "none", v |-> 0]

\* Python truth of a value: a non-empty str, a non-zero float; None is false
Truthy(val) ==
    \/ val.t = "str" /\ val.v # <<>>
    \/ val.t = "float" /\ (val.v # 0 \/ val.frac # <<>>)

\* rec.get(k)
Get(rec, k) == IF k \in DOMAIN rec THEN rec[k] ELSE None

\* rec[k] = val
Put(rec, k, val) == [x \in DOMAIN rec \cup {k} |-> IF x = k THEN val ELSE rec[x]]

----------------------------------------------------------------------------
(* dateparser.parse and datetime.isoformat                                 *)

DigitChars == <<"0","1","2","3","4","5","6","7","8","9">>

DigitVal(c) == (CHOOSE k \in DOMAIN DigitChars : DigitChars[k] = c) - 1

Pad2(n) == <<DigitChars[(n \div 10) + 1], DigitChars[(n % 10) + 1]>>

Pad4(n) == Pad2(n \div 100) \o Pad2(n % 100)

\* what the date parser makes of the texts of the model: a datetime
\* <<year, month, day, hour, minute, second>>; any other text has no result
DateTable ==
    { <<T_DateA, <<2019, 1, 5, 0, 0, 0>>>>,
      <<T_IsoA,  <<2019, 1, 5, 0, 0, 0>>>>,
      <<T_DateB, <<2018, 12, 31, 0, 0, 0>>>>,
      <<T_IsoB,  <<2018, 12, 31, 0, 0, 0>>>> }

\* dateparser.parse(text)
dateparser_parse(text) ==
    IF \E e \in DateTable : e[1] = text
    THEN [t |-> "datetime", v |-> (CHOOSE e \in DateTable : e[1] = text)[2]]
    ELSE None

\* dt.isoformat() of a datetime without microseconds or zone
isoformat(dt) ==
    Pad4(dt[1]) \o <<"-">> \o Pad2(dt[2]) \o <<"-">> \o Pad2(dt[3]) \o <<"T">>
        \o Pad2(dt[4]) \o <<":">> \o Pad2(dt[5]) \o <<":">> \o Pad2(dt[6])

----------------------------------------------------------------------------
(* float() of a decimal text: a sign, the integer part and the fraction    *)
(* digits without trailing zeros                                           *)

RECURSIVE IntOf(_)
IntOf(ds) ==
    IF Len(ds) = 0 THEN 0
    ELSE 10 * IntOf(SubSeq(ds, 1, Len(ds) - 1)) + DigitVal(ds[Len(ds)])

RECURSIVE StripZeros(_)
StripZeros(ds) ==
    IF Len(ds) > 0 /\ ds[Len(ds)] = "0"
    THEN StripZeros(SubSeq(ds, 1, Len(ds) - 1))
    ELSE ds

\* float(text) for text matching \d+(?:\.\d+)?
ToFloat(text) ==
    LET dots == {k \in 1..Len(text) : text[k] = "."}
        ip   == IF dots = {} THEN text ELSE SubSeq(text, 1, Min(dots) - 1)
        fp   == IF dots = {} THEN <<>> ELSE SubSeq(text, Min(dots) + 1, Len(text))
    IN  Flt(1, IntOf(ip), StripZeros(fp))

\* x *= -1
Negate(x) == Flt(-x.sign, x.v, x.frac)

----------------------------------------------------------------------------
(* The regular expressions of format_record                                *)

RECURSIVE DigitRunEnd(_, _)
DigitRunEnd(s, p) ==
    IF p <= Len(s) /\ IsDigit(s[p]) THEN DigitRunEnd(s, p + 1) ELSE p

RECURSIVE SpaceRunEnd(_, _)
SpaceRunEnd(s, p) ==
    IF p <= Len(s) /\ IsSpace(s[p]) THEN SpaceRunEnd(s, p + 1) ELSE p

At(s, p) == IF p >= 1 /\ p <= Len(s) THEN s[p] ELSE "<end>"

\* the ways \d+(?:\.\d+)? matches from p: <<d, e>>, the integer digits
\* ending before d and the whole number before e
NumberPaths(s, p) ==
    UNION { {<<d, d>>} \cup
            (IF At(s, d) = "."
             THEN {<<d, f>> : f \in (d + 2)..DigitRunEnd(s, d + 1)}
             ELSE {})
            : d \in (p + 1)..DigitRunEnd(s, p) }

\* the greedy match of \d+(?:\.\d+)? from p when nothing after it can fail
NumberEnd(s, p) ==
    LET d == DigitRunEnd(s, p)
    IN  IF At(s, d) = "." /\ DigitRunEnd(s, d + 1) > d + 1
        THEN DigitRunEnd(s, d + 1)
        ELSE d

\* the ways (\d+(?:\.\d+)?)\s*([NS])?(?:[,\s]) matches from p with a digit
\* after it: <<d, e, w, n>>, the number before e, the whitespace before w,
\* the hemisphere letter (if taken) before n, the separator at n
LatPaths(s, p) ==
    UNION { UNION { { <<de[1], de[2], w, n>> :
                        n \in {x \in {w, w + 1} :
                                 /\ x = w + 1 => At(s, w) \in {"N", "S"}
                                 /\ At(s, x) = "," \/ IsSpace(At(s, x))
                                 /\ IsDigit(At(s, x + 1))} }
                    : w \in de[2]..SpaceRunEnd(s, de[2]) }
            : de \in NumberPaths(s, p) }

\* the order in which the backtracking matcher tries the paths: longer
\* digits, then a longer number, then more whitespace, then the letter
Before(a, b) ==
    \/ a[1] > b[1]
    \/ a[1] = b[1] /\ a[2] > b[2]
    \/ a[1] = b[1] /\ a[2] = b[2] /\ a[3] > b[3]
    \/ a[1] = b[1] /\ a[2] = b[2] /\ a[3] = b[3] /\ a[4] >= b[4]

\* re.search(re1, lat_lon).groups(), or None: the leftmost start, and from
\* it the first path tried that matches
SearchLatLon(s) ==
    LET starts == {p \in 1..Len(s) : LatPaths(s, p) # {}}
    IN  IF starts = {} THEN None
        ELSE LET p  == Min(starts)
                 m  == CHOOSE a \in LatPaths(s, p) :
                           \A b \in LatPaths(s, p) : Before(a, b)
                 g  == m[4] + 1
                 e3 == NumberEnd(s, g)
                 w3 == SpaceRunEnd(s, e3)
             IN  [t |-> "match",
                  v |-> 0,
                  lat |-> SubSeq(s, p, m[2] - 1),
                  lat_dir |-> IF m[4] > m[3] THEN At(s, m[3]) ELSE "",
                  lon |-> SubSeq(s, g, e3 - 1),
                  lon_dir |-> IF At(s, w3) \in {"E", "W"} THEN At(s, w3) ELSE ""]

\* re.search(r'(\d+(\.\d+)?)', depth).group(1), or None
SearchNumber(s) ==
    LET starts == {p \in 1..Len(s) : IsDigit(s[p])}
    IN  IF starts = {} THEN None
        ELSE Str(SubSeq(s, Min(starts), NumberEnd(s, Min(starts)) - 1))

----------------------------------------------------------------------------
(* format_record                                                           *)

\* one turn of the loop over ['time', 'collection_date']; st.ok is false
\* once dt.isoformat() has raised on a dt of None
TimeStep(st, fld) ==
    IF ~st.ok THEN st
    ELSE LET col_date == Get(st.rec, fld)
         IN  IF Truthy(col_date)
             THEN LET dt == dateparser_parse(col_date.v)
                  IN  IF dt.t = "none"
                      THEN [ok |-> FALSE, rec |-> st.rec]
                      ELSE [ok |-> TRUE,
                            rec |-> Put(st.rec, F_time, Str(isoformat(dt.v)))]
             ELSE st

TimeRule(rec) ==
    TimeStep(TimeStep([ok |-> TRUE, rec |-> rec], F_time), F_collection_date)

CoordRule(rec) ==
    LET lat_lon == Get(rec, F_lat_lon)
    IN  IF Truthy(lat_lon)
        THEN LET match == SearchLatLon(lat_lon.v)
             IN  IF match.t = "match"
                 THEN LET lat == ToFloat(match.lat)
                          lon == ToFloat(match.lon)
                      IN  Put(Put(rec,
                                  F_lat,
                                  IF match.lat_dir = "S" THEN Negate(lat) ELSE lat),
                              F_lon,
                              IF match.lon_dir = "W" THEN Negate(lon) ELSE lon)
                 ELSE rec
        ELSE rec

\* a fallback that looks at sample_depth only when depth is no key
DepthSourceAbsentOnly(rec) ==
    IF F_depth \in DOMAIN rec THEN rec[F_depth] ELSE Get(rec, F_sample_depth)

\* rec.get('depth') or rec.get('sample_depth')
DepthSource(rec) ==
    IF Truthy(Get(rec, F_depth)) THEN Get(rec, F_depth)
    ELSE Get(rec, F_sample_depth)

DepthRule(rec) ==
    LET depth == DepthSource(rec)
    IN  IF Truthy(depth)
        THEN LET match == SearchNumber(depth.v)
             IN  IF match.t = "str" THEN Put(rec, F_depth, match) ELSE rec
        ELSE rec

\* format_record(rec): [ok |-> TRUE, rec |-> the record returned], or
\* [ok |-> FALSE, ...] when the call ends in AttributeError
format_record(rec) ==
    LET timed == TimeRule(rec)
    IN  IF timed.ok
        THEN [ok |-> TRUE, rec |-> DepthRule(CoordRule(timed.rec))]
        ELSE timed

----------------------------------------------------------------------------
(* Field reconciliation: lines 186-189 of main                             *)

\* list(OrderedDict((k, _) for k in names).keys()): each name once, at the
\* place it is first seen
RECURSIVE FirstSeen(_, _)
FirstSeen(names, seen) ==
    IF Len(names) = 0 THEN <<>>
    ELSE IF names[1] \in seen THEN FirstSeen(Tail(names), seen)
    ELSE <<names[1]>> \o FirstSeen(Tail(names), seen \cup {names[1]})

\* flds = req_flds + reader.fieldnames
Flds(hdr) == req_flds \o hdr

\* norm2fld = OrderedDict(map(lambda s: (normalize(s), s), flds)): a later
\* pair with the same key replaces the value
Norm2Fld(hdr) ==
    LET flds == Flds(hdr)
    IN  [k \in {normalize(flds[j]) : j \in 1..Len(flds)} |->
            flds[Max({j \in 1..Len(flds) : normalize(flds[j]) = k})]]

\* a key list that keeps every pair of the map
OrderedFldsNoDedup(hdr) ==
    [j \in 1..Len(Flds(hdr)) |-> normalize(Flds(hdr)[j])]

\* ordered_flds = list(norm2fld.keys())
OrderedFlds(hdr) ==
    FirstSeen([j \in 1..Len(Flds(hdr)) |-> normalize(Flds(hdr)[j])], {})

\* all([fld in row for fld in req_flds])
AllRequired(row) == \A j \in 1..Len(req_flds) : req_flds[j] \in DOMAIN row

\* [clean[norm2fld[fld]] for fld in ordered_flds]
Cells(clean, n2f, ordered) == [j \in 1..Len(ordered) |-> clean[n2f[ordered[j]]]]

----------------------------------------------------------------------------
(* Bounds and inputs                                                       *)

MaxFiles == 3

MaxRows == 2

MaxNameLen == 4

MaxHeaderLen == 3

MaxCoordLen == 5

MaxDepthLen == 3

\* the characters the names given to normalize are made of
NameChars == {"a", "b", "A", "B", "1", "_"}

\* the names given to normalize: every text of at most n characters, and
\* some source field names
NameTexts(n) ==
    TextsUpTo(NameChars, n)
        \cup {F_BioSample, F_Bar_Baz, F_Time, F_LAT, F_collection_date}

\* the source field names the headers given to the header rule are made of
HeaderNames ==
    {F_foo, F_Bar_Baz, F_bar_baz, F_time, F_Time, F_LAT, F_BioSample, F_lat_lon}

\* the headers of at most n fields
Headers(n) == TextsUpTo(HeaderNames, n)

CoordChars == {"1", ".", " ", ",", "N", "S", "E", "W"}

\* the lat_lon values: every text of at most n characters, and the examples
CoordTexts(n) ==
    TextsUpTo(CoordChars, n)
        \cup {T_CoordSW, T_CoordNE, T_CoordDMS, T_CoordPlain}

DepthChars == {"1", ".", "m"}

\* the depth values: every text of at most n characters, and the examples
DepthTexts(n) ==
    TextsUpTo(DepthChars, n) \cup {T_9m, T_12_5_meters, T_no_data}

EmptyRec == [k \in {} |-> None]

\* the records with the keys of cols (a sequence of <<name, values>>), and
\* with each of them left out
RECURSIVE RecsOver(_)
RecsOver(cols) ==
    IF Len(cols) = 0 THEN {EmptyRec}
    ELSE LET rest == RecsOver(Tail(cols))
         IN  rest \cup {Put(r, cols[1][1], Str(v)) : r \in rest, v \in cols[1][2]}

TimeRecs ==
    RecsOver(<< <<F_time, {<<>>, T_DateA, T_IsoB, T_BadDate, T_noon}>>,
                <<F_collection_date, {<<>>, T_DateA, T_DateB, T_BadDate}>>,
                <<F_depth, {T_9m}>> >>)

DepthRecs(n) ==
    RecsOver(<< <<F_depth, DepthTexts(n)>>, <<F_sample_depth, DepthTexts(n)>> >>)

\* the headers of the input files
H_scenario == <<F_collection_date, F_lat_lon, F_depth, F_notes>>

H_required == <<F_time, F_lat, F_lon, F_depth>>

H_collide == <<F_Time, F_collection_date, F_lat_lon, F_depth>>

H_example == <<F_foo, F_Bar_Baz, F_time>>

FileHeaders == {H_scenario, H_required, H_collide, H_example}

\* the values a column of an input file takes
ColumnValues(name) ==
    CASE name = F_collection_date -> {T_DateA, <<>>, T_BadDate}
      [] name = F_time -> {T_DateB}
      [] name = F_Time -> {T_noon}
      [] name = F_lat_lon -> {T_CoordPlain}
      [] name = F_lat -> {T_1_5, <<>>}
      [] name = F_lon -> {T_2_5}
      [] name = F_depth -> {T_9m}
      [] OTHER -> {T_hello}

\* csv.DictReader's rows for a header: every column has a str value
RECURSIVE RowsOver(_)
RowsOver(hdr) ==
    IF Len(hdr) = 0 THEN {EmptyRec}
    ELSE {Put(r, hdr[1], Str(v)) : r \in RowsOver(Tail(hdr)), v \in ColumnValues(hdr[1])}

\* the data rows of a file with that header
FileRows(hdr) ==
    UNION {[1..n -> RowsOver(hdr)] : n \in 0..MaxRows}

----------------------------------------------------------------------------
(* Direct calls of normalize and format_record, and the header rule alone  *)

MainIdle ==
    /\ pc = "idle"
    /\ sra = <<>>
    /\ i = 0
    /\ header = <<>>
    /\ norm2fld = EmptyRec
    /\ ordered_flds = <<>>
    /\ data_ws = <<>>
    /\ rows = <<>>
    /\ nread = 0
    /\ num_taken = 0
    /\ skipped = <<>>
    /\ stderr = {}
    /\ saved = {}
    /\ exported = <<>>

InitNormalize ==
    /\ MainIdle
    /\ arg \in NameTexts(MaxNameLen)
    /\ ret = <<>>
    /\ fpc = "call"

\* ret[1] = normalize(arg)
NormalizeCall ==
    /\ fpc = "call"
    /\ ret' = <<normalize(arg)>>
    /\ fpc' = "again"
    /\ UNCHANGED <<arg, mainVars>>

\* ret[2] = normalize(ret[1])
NormalizeAgain ==
    /\ fpc = "again"
    /\ ret' = Append(ret, normalize(ret[1]))
    /\ fpc' = "returned"
    /\ UNCHANGED <<arg, mainVars>>

NextNormalize == NormalizeCall \/ NormalizeAgain

SpecNormalize == InitNormalize /\ [][NextNormalize]_vars

InitFormat ==
    /\ MainIdle
    /\ \/ arg \in TimeRecs
       \/ \E c \in CoordTexts(MaxCoordLen) : arg = Put(EmptyRec, F_lat_lon, Str(c))
       \/ arg \in DepthRecs(MaxDepthLen)
    /\ ret = [ok |-> TRUE, rec |-> EmptyRec]
    /\ fpc = "call"

\* ret = format_record(arg); fpc is "raised" when the call ends in an error
FormatCall ==
    /\ fpc = "call"
    /\ ret' = format_record(arg)
    /\ fpc' = IF ret'.ok THEN "returned" ELSE "raised"
    /\ UNCHANGED <<arg, mainVars>>

NextFormat == FormatCall

SpecFormat == InitFormat /\ [][NextFormat]_vars

InitHeader ==
    /\ MainIdle
    /\ arg \in Headers(MaxHeaderLen)
    /\ ret = <<>>
    /\ fpc = "call"

\* lines 186-189 for reader.fieldnames = arg; ret is the sheet's first row
HeaderCall ==
    /\ fpc = "call"
    /\ ret' = OrderedFlds(arg)
    /\ fpc' = "returned"
    /\ UNCHANGED <<arg, mainVars>>

NextHeader == HeaderCall

SpecHeader == InitHeader /\ [][NextHeader]_vars

----------------------------------------------------------------------------
(* main                                                                    *)

Init ==
    /\ pc = "loop"
    /\ sra \in UNION {[1..n -> {"file", "missing"}] : n \in 1..MaxFiles}
    /\ i = 0
    /\ header = <<>>
    /\ norm2fld = EmptyRec
    /\ ordered_flds = <<>>
    /\ data_ws = <<>>
    /\ rows = <<>>
    /\ nread = 0
    /\ num_taken = 0
    /\ skipped = <<>>
    /\ stderr = {}
    /\ saved = {}
    /\ exported = <<>>
    /\ arg = EmptyRec
    /\ ret = [ok |-> TRUE, rec |-> EmptyRec]
    /\ fpc = "idle"

\* the conditions under which main takes each of its steps
AtMissingPath == pc = "loop" /\ i < Len(sra) /\ sra[i + 1] = "missing"

AtFile == pc = "loop" /\ i < Len(sra) /\ sra[i + 1] = "file"

AtRow == pc = "rows" /\ nread < Len(rows)

AtEndOfRows == pc = "rows" /\ nread = Len(rows)

AtEndOfPaths == pc = "loop" /\ i = Len(sra)

\* a loop that gives up at the first path that is no file
NotAFileBreaks ==
    /\ AtMissingPath
    /\ stderr' = stderr \cup {i + 1}
    /\ i' = i + 1
    /\ pc' = "done"
    /\ UNCHANGED <<sra, header, norm2fld, ordered_flds, data_ws, rows, nread,
                   num_taken, skipped, saved, exported, arg, ret, fpc>>

\* lines 151-154: the path is not a file: warn and continue
NotAFile ==
    /\ AtMissingPath
    /\ stderr' = stderr \cup {i + 1}
    /\ i' = i + 1
    /\ UNCHANGED <<pc, sra, header, norm2fld, ordered_flds, data_ws, rows, nread,
                   num_taken, skipped, saved, exported, arg, ret, fpc>>

\* lines 156-191: a new workbook, the reader over the file, the header row
OpenFile ==
    /\ AtFile
    /\ \E hdr \in FileHeaders :
         /\ header' = hdr
         /\ norm2fld' = Norm2Fld(hdr)
         /\ ordered_flds' = OrderedFlds(hdr)
         /\ data_ws' = <<ordered_flds'>>
         /\ rows' \in FileRows(hdr)
    /\ nread' = 0
    /\ num_taken' = 0
    /\ skipped' = <<>>
    /\ i' = i + 1
    /\ pc' = "rows"
    /\ UNCHANGED <<sra, stderr, saved, exported, arg, ret, fpc>>

\* a row loop that ends at the first row it skips ('break'), going on to
\* save the workbook
ReadRowBreaks ==
    /\ AtRow
    /\ arg' = rows[nread + 1]
    /\ ret' = format_record(rows[nread + 1])
    /\ IF ~ret'.ok
       THEN /\ pc' = "crashed"
            /\ UNCHANGED <<nread, num_taken, data_ws, skipped, saved, exported>>
       ELSE /\ nread' = nread + 1
            /\ IF AllRequired(ret'.rec)
               THEN /\ num_taken' = num_taken + 1
                    /\ data_ws' = Append(data_ws,
                                         Cells(ret'.rec, norm2fld, ordered_flds))
                    /\ UNCHANGED <<pc, skipped, saved, exported>>
               ELSE /\ skipped' = Append(skipped, ret'.rec)
                    /\ saved' = saved \cup {i}
                    /\ exported' = <<num_taken>>
                    /\ pc' = "loop"
                    /\ UNCHANGED <<num_taken, data_ws>>
    /\ UNCHANGED <<sra, i, header, norm2fld, ordered_flds, rows, stderr, fpc>>

\* lines 192-199: one turn of the row loop; an error in format_record ends
\* the run
ReadRow ==
    /\ AtRow
    /\ LET clean == format_record(rows[nread + 1])
       IN  /\ arg' = rows[nread + 1]
           /\ ret' = clean
           /\ IF ~clean.ok
              THEN /\ pc' = "crashed"
                   /\ UNCHANGED <<nread, num_taken, data_ws, skipped>>
              ELSE /\ pc' = pc
                   /\ nread' = nread + 1
                   /\ IF AllRequired(clean.rec)
                      THEN /\ num_taken' = num_taken + 1
                           /\ data_ws' = Append(data_ws,
                                                Cells(clean.rec, norm2fld, ordered_flds))
                           /\ skipped' = skipped
                      ELSE /\ skipped' = Append(skipped, clean.rec)
                           /\ UNCHANGED <<num_taken, data_ws>>
    /\ UNCHANGED <<sra, i, header, norm2fld, ordered_flds, rows, stderr, saved,
                   exported, fpc>>

\* lines 201-218: the reader is exhausted: save the workbook, print the count
EndOfFile ==
    /\ AtEndOfRows
    /\ saved' = saved \cup {i}
    /\ exported' = <<num_taken>>
    /\ pc' = "loop"
    /\ UNCHANGED <<sra, i, header, norm2fld, ordered_flds, data_ws, rows, nread,
                   num_taken, skipped, stderr, arg, ret, fpc>>

\* line 220: the for loop is over
Finish ==
    /\ AtEndOfPaths
    /\ pc' = "done"
    /\ UNCHANGED <<sra, i, header, norm2fld, ordered_flds, data_ws, rows, nread,
                   num_taken, skipped, stderr, saved, exported, arg, ret, fpc>>

Next == NotAFile \/ OpenFile \/ ReadRow \/ EndOfFile \/ Finish

Spec == Init /\ [][Next]_vars

----------------------------------------------------------------------------
(* Properties                                                              *)

Required == {F_time, F_lat, F_lon, F_depth}

\* the record holds a value under k that is not the empty text
HasValue(rec, k) ==
    k \in DOMAIN rec /\ rec[k].t # "none" /\ rec[k] # Str(<<>>)

AllNonEmpty(rec) == \A k \in Required : HasValue(rec, k)

SomeEmpty(rec) == ~AllNonEmpty(rec)

HasAllKeys(rec) == Required \subseteq DOMAIN rec

LacksAKey(rec) == ~HasAllKeys(rec)

\* the cleaned records of the rows read so far, and of the whole file
CleanRead == [k \in 1..nread |-> format_record(rows[k]).rec]

CleanAll == [k \in 1..Len(rows) |-> format_record(rows[k]).rec]

\* a date candidate that is not empty and that the parser has no result for
Unparseable(rec, fld) ==
    /\ fld \in DOMAIN rec
    /\ rec[fld].t = "str"
    /\ rec[fld].v # <<>>
    /\ dateparser_parse(rec[fld].v).t = "none"

Parseable(rec, fld) ==
    /\ fld \in DOMAIN rec
    /\ rec[fld].t = "str"
    /\ rec[fld].v # <<>>
    /\ dateparser_parse(rec[fld].v).t = "datetime"

Rendered(rec, fld) == Str(isoformat(dateparser_parse(rec[fld].v).v))

Malformed(rec) == Unparseable(rec, F_time) \/ Unparseable(rec, F_collection_date)

\* the key k is in both records with the same value, or in neither
AsFound(before, after, k) ==
    /\ (k \in DOMAIN after) <=> (k \in DOMAIN before)
    /\ k \in DOMAIN before => after[k] = before[k]

\* C1: in the row loop, a row is appended to the data sheet if and only if
\* time, lat, lon and depth all have a non-empty value in the record
\* format_record returned; every other row is not appended and is reported.
\* (Stated for every prefix of the rows, which is the same as row by row.)
C1_AppendedIffNonEmpty ==
    pc = "rows" =>
        /\ Len(data_ws) - 1 = Cardinality({k \in 1..nread : AllNonEmpty(CleanRead[k])})
        /\ skipped = SelectSeq(CleanRead, SomeEmpty)

\* C2: format_record never ends in an error; when the parser has no result
\* for any non-empty candidate it returns the record with time as found.
C2_FormatNeverRaises ==
    fpc # "call" =>
        /\ fpc = "returned"
        /\ (~Parseable(arg, F_time) /\ ~Parseable(arg, F_collection_date))
              => AsFound(arg, ret.rec, F_time)

\* what is left of the run: it falls with every step of main
Remaining ==
    CASE pc = "loop" -> (Len(sra) - i) * (MaxRows + 2) + 1
      [] pc = "rows" -> (Len(sra) - i) * (MaxRows + 2) + 1 + (Len(rows) - nread) + 1
      [] OTHER -> 0

\* C3: a path that is not a file is named in a diagnostic and gets no
\* workbook, every path that is a file gets its workbook saved wherever the
\* missing ones stand in the list, and the run reaches 'Done': until then
\* the condition of one of main's steps is met and every step brings the
\* end nearer.  The run
\* ends otherwise only in a file that is not well-formed (a row with a date
\* the parser has no result for).
C3_MissingFileSkipped ==
    /\ [](pc = "done" =>
            \A k \in 1..Len(sra) :
                /\ sra[k] = "missing" => k \in stderr /\ k \notin saved
                /\ sra[k] = "file" => k \in saved /\ k \notin stderr)
    /\ [](pc = "crashed" => \E k \in 1..Len(rows) : Malformed(rows[k]))
    /\ [](pc \in {"loop", "rows"} =>
            AtMissingPath \/ AtFile \/ AtRow \/ AtEndOfRows \/ AtEndOfPaths)
    /\ [][Remaining' < Remaining]_vars

C3_Witness ==
    /\ pc = "done"
    /\ sra = <<"file", "missing", "file">>
    /\ saved = {1, 3}
    /\ stderr = {2}

\* C4: when main has finished a file, the data sheet is the header row
\* followed by exactly the rows that passed the test of line 194, in input
\* order, every other row has been reported once, in input order, and the
\* count exported is the number of data rows.
C4_FileFinished ==
    (pc = "loop" /\ i \in saved) =>
        LET acc == SelectSeq(CleanAll, HasAllKeys)
        IN  /\ nread = Len(rows)
            /\ data_ws = <<ordered_flds>> \o
                   [k \in 1..Len(acc) |-> Cells(acc[k], norm2fld, ordered_flds)]
            /\ skipped = SelectSeq(CleanAll, LacksAKey)
            /\ exported = <<Len(data_ws) - 1>>

\* a rejected row followed by an accepted one, both accounted for
C4_Witness ==
    /\ pc = "loop"
    /\ i \in saved
    /\ Len(rows) = 2
    /\ LacksAKey(CleanAll[1])
    /\ HasAllKeys(CleanAll[2])
    /\ Len(data_ws) = 2
    /\ skipped = <<CleanAll[1]>>

\* C5: the time candidates are checked in the order time, collection_date
\* and the first non-empty one wins.
C5_FirstCandidateWins ==
    fpc = "returned" =>
        /\ (Parseable(arg, F_time) /\ Parseable(arg, F_collection_date))
              => ret.rec[F_time] = Rendered(arg, F_time)
        /\ (~HasValue(arg, F_time) /\ Parseable(arg, F_collection_date))
              => ret.rec[F_time] = Rendered(arg, F_collection_date)

\* a decimal number: digits, with at most one point between two of them
IsDecimalText(t) ==
    /\ Len(t) >= 1
    /\ \A k \in 1..Len(t) : IsDigit(t[k]) \/ t[k] = "."
    /\ IsDigit(t[1])
    /\ IsDigit(t[Len(t)])
    /\ Cardinality({k \in 1..Len(t) : t[k] = "."}) <= 1

\* optional whitespace, then at most one of the letters
IsSpacesThenLetter(t, letters) ==
    \/ \A k \in 1..Len(t) : t[k] = " "
    \/ /\ Len(t) >= 1
       /\ t[Len(t)] \in letters
       /\ \A k \in 1..(Len(t) - 1) : t[k] = " "

\* the ways to read the whole text as number, whitespace, N or S,
\* separator, number, whitespace, E or W: <<a, b, c>> with the first number
\* ending at a, the separator at b, the second number ending at c
CoordForms(t) ==
    UNION { UNION { { <<a, b, c>> : c \in { x \in (b + 1)..Len(t) :
                          /\ IsDecimalText(SubSeq(t, b + 1, x))
                          /\ IsSpacesThenLetter(SubSeq(t, x + 1, Len(t)), {"E", "W"}) } }
                    : b \in { y \in (a + 1)..Len(t) :
                          /\ t[y] \in {",", " "}
                          /\ IsSpacesThenLetter(SubSeq(t, a + 1, y - 1), {"N", "S"}) } }
            : a \in { z \in 1..Len(t) : IsDecimalText(SubSeq(t, 1, z)) } }

Has(t, c) == \E k \in 1..Len(t) : t[k] = c

\* the general rule of C6 alone
C6_General ==
    (fpc = "returned" /\ F_lat_lon \in DOMAIN arg) =>
        \A f \in CoordForms(arg[F_lat_lon].v) :
            LET t   == arg[F_lat_lon].v
                lat == ToFloat(SubSeq(t, 1, f[1]))
                lon == ToFloat(SubSeq(t, f[2] + 1, f[3]))
            IN  /\ HasValue(ret.rec, F_lat)
                /\ HasValue(ret.rec, F_lon)
                /\ ret.rec[F_lat] =
                       (IF Has(SubSeq(t, f[1] + 1, f[2] - 1), "S") THEN Negate(lat) ELSE lat)
                /\ ret.rec[F_lon] =
                       (IF Has(SubSeq(t, f[3] + 1, Len(t)), "W") THEN Negate(lon) ELSE lon)

\* C6: a lat_lon value made of number, whitespace, N or S, separator,
\* number, whitespace, E or W sets lat and lon to the two numbers, negated
\* for S and for W; "37.8305 S, 41.1248 W" gives -37.8305 and -41.1248,
\* "10.5 N 20.25 E" gives 10.5 and 20.25, and 37deg49'50"S leaves both unset.
C6_CoordinateRule ==
    /\ C6_General
    /\ (fpc = "returned" /\ F_lat_lon \in DOMAIN arg /\ arg[F_lat_lon] = Str(T_CoordSW))
          => /\ HasValue(ret.rec, F_lat)
             /\ HasValue(ret.rec, F_lon)
             /\ ret.rec[F_lat] = Flt(-1, 37, <<"8", "3", "0", "5">>)
             /\ ret.rec[F_lon] = Flt(-1, 41, <<"1", "2", "4", "8">>)
    /\ (fpc = "returned" /\ F_lat_lon \in DOMAIN arg /\ arg[F_lat_lon] = Str(T_CoordNE))
          => /\ HasValue(ret.rec, F_lat)
             /\ HasValue(ret.rec, F_lon)
             /\ ret.rec[F_lat] = Flt(1, 10, <<"5">>)
             /\ ret.rec[F_lon] = Flt(1, 20, <<"2", "5">>)
    /\ (fpc = "returned" /\ F_lat_lon \in DOMAIN arg /\ arg[F_lat_lon] = Str(T_CoordDMS))
          => F_lat \notin DOMAIN ret.rec /\ F_lon \notin DOMAIN ret.rec

\* C7: the header row is time, lat, lon, depth, then the normalized names
\* of the source header in first-seen order, each canonical name once; for
\* [foo, Bar_Baz, time] it is [time, lat, lon, depth, foo, bar_baz].
C7_HeaderRow ==
    fpc = "returned" =>
        LET n        == [j \in 1..Len(arg) |-> normalize(arg[j])]
            first(x) == Min({j \in 1..Len(arg) : n[j] = x})
        IN  /\ Len(ret) >= 4
            /\ SubSeq(ret, 1, 4) = <<F_time, F_lat, F_lon, F_depth>>
            /\ \A a, b \in 1..Len(ret) : a # b => ret[a] # ret[b]
            /\ {ret[a] : a \in 1..Len(ret)} = Required \cup {n[j] : j \in 1..Len(arg)}
            /\ \A a, b \in 5..Len(ret) : a < b => first(ret[a]) < first(ret[b])
            /\ arg = <<F_foo, F_Bar_Baz, F_time>>
                  => ret = <<F_time, F_lat, F_lon, F_depth, F_foo, F_bar_baz>>

C7_Witness ==
    /\ fpc = "returned"
    /\ arg = <<F_foo, F_Bar_Baz, F_time>>
    /\ Len(ret) = 6

\* C8: normalize(normalize(x)) = normalize(x) for every name over letters,
\* digits and underscores, and normalize(x) = x when x has no uppercase
\* letter.
C8_NormalizeIdempotent ==
    /\ fpc = "returned" => ret[2] = ret[1]
    /\ (fpc \in {"again", "returned"} /\ \A k \in 1..Len(arg) : ~IsUpper(arg[k]))
          => ret[1] = arg

\* a camelCase name, normalized twice
C8_Witness ==
    /\ fpc = "returned"
    /\ arg = <<"a", "B">>
    /\ ret = << <<"a", "_", "b">>, <<"a", "_", "b">> >>

\* the first decimal number in the text: <<a, b>>, leftmost and longest
FirstDecimal(t) ==
    CHOOSE ab \in {xy \in (1..Len(t)) \X (1..Len(t)) :
                      xy[1] <= xy[2] /\ IsDecimalText(SubSeq(t, xy[1], xy[2]))} :
        /\ \A k \in 1..(ab[1] - 1) : ~IsDigit(t[k])
        /\ \A y \in (ab[2] + 1)..Len(t) : ~IsDecimalText(SubSeq(t, ab[1], y))

\* what the depth rule does with the text it examines (None: no text)
DepthResult(examined) ==
    IF examined.t = "str" /\ (\E k \in 1..Len(examined.v) : IsDigit(examined.v[k]))
    THEN ret.rec[F_depth] =
             Str(SubSeq(examined.v, FirstDecimal(examined.v)[1], FirstDecimal(examined.v)[2]))
    ELSE AsFound(arg, ret.rec, F_depth)

\* C9 as stated: the text examined is depth, and sample_depth only when
\* depth is absent from the record; depth becomes the first decimal number
\* of that text, or stays as found when the text has none.
C9_DepthAbsentOnly ==
    fpc = "returned" =>
        DepthResult(IF F_depth \in DOMAIN arg THEN arg[F_depth]
                    ELSE IF F_sample_depth \in DOMAIN arg THEN arg[F_sample_depth]
                    ELSE None)

\* C9 amended: the text examined is depth when depth is present and not
\* empty, and sample_depth otherwise; the rest as stated.
C9_DepthAbsentOrEmpty ==
    fpc = "returned" =>
        DepthResult(IF HasValue(arg, F_depth) THEN arg[F_depth]
                    ELSE IF F_sample_depth \in DOMAIN arg THEN arg[F_sample_depth]
                    ELSE None)

\* depth is empty and sample_depth holds a number
C9_Witness ==
    /\ fpc = "returned"
    /\ F_depth \in DOMAIN arg
    /\ arg[F_depth] = Str(<<>>)
    /\ F_sample_depth \in DOMAIN arg
    /\ arg[F_sample_depth] = Str(T_9m)
    /\ ret.rec[F_depth] = Str(T_9)

\* C10: for every accepted row the cell under each of time, lat, lon, depth
\* is the value the cleaned record holds under that name.
C10_RequiredCells ==
    (pc = "rows" /\ nread >= 1 /\ ret.ok /\ HasAllKeys(ret.rec)) =>
        \A j \in 1..4 :
            data_ws[Len(data_ws)][j] = ret.rec[req_flds[j]]

====
